---- MODULE Spec2Model ----
(***************************************************************************)
(* Model of server/src/models.rs: the SavedGif and User repositories, each *)
(* operation one SQL statement issued on a caller-supplied transaction     *)
(* (writes) or connection (reads), against a PostgreSQL store with the     *)
(* two tables saved_gifs and users.                                        *)
(*                                                                         *)
(* The store is modelled at READ COMMITTED: a transaction sees the         *)
(* committed rows and its own uncommitted writes; a statement that needs a *)
(* row (or unique key) written by another open transaction waits, i.e. is  *)
(* not enabled, until that transaction commits or rolls back. The id       *)
(* sequences are not transactional: a value drawn is never drawn again.    *)
(*                                                                         *)
(* The callers are not in models.rs. In the model each write call runs in  *)
(* a transaction of its own, which the caller commits or rolls back; reads *)
(* go through the pool or through an open transaction's connection. The    *)
(* foreign key from saved_gifs.user to users is not exercised: the two     *)
(* repositories are explored in separate specifications, the reads of      *)
(* saved gifs over the rows the inserts stored, the category updates       *)
(* without the reads.                                                      *)
(***************************************************************************)
EXTENDS Integers, Sequences, FiniteSets, TLC

\* ------------------------------------------------------------------ bounds
\* Values the id sequences of the two tables may reach.
MaxUserSeq == 3
MaxGifSeq == 2

\* ------------------------------------------------------------------ inputs
Txs == {"tx1", "tx2"}
Pool == "pool"
Handles == Txs \cup {Pool}

Emails == {"ann@x.io", "bob@x.io"}
Hashes == {"h1", "h2"}
UserArgs == {1, 2}
Categories == {"funny", "cute"}

\* Option<T>: None is the empty sequence, Some(x) the one-element sequence.
None == <<>>
Some(x) == <<x>>

\* common::GiphyGif values handed to SavedGif::insert.
GifInputs ==
    { [id |-> "abc123", title |-> "Cat", url |-> "http://x/abc123.gif",
       is_saved |-> FALSE, category |-> None],
      [id |-> "xyz789", title |-> "Dog", url |-> "http://x/xyz789.gif",
       is_saved |-> FALSE, category |-> Some("cute")] }

\* id lists handed to for_user_matching_ids.
IdLists ==
    { <<>>, <<"abc123">>, <<"nonexistent">>, <<"xyz789", "abc123">>,
      <<"abc123", "abc123", "nonexistent">> }
GiphyIds == {"abc123", "xyz789", "nonexistent"}

\* ------------------------------------------------------------------ state
VARIABLES
    users,       \* committed rows of public.users
    gifs,        \* committed rows of public.saved_gifs
    txUsers,     \* per transaction: user rows inserted and not yet committed
    txGifs,      \* per transaction: saved_gifs row versions written and not yet committed
    txOpen,      \* per transaction: its write statement was issued, it is not ended
    txFailed,    \* per transaction: the statement failed, so only rollback remains
    nextUserId,  \* users_id_seq
    nextGifId,   \* saved_gifs_id_seq
    ret          \* the last operation and what it returned

vars ==
    <<users, gifs, txUsers, txGifs, txOpen, txFailed, nextUserId, nextGifId, ret>>
store == <<users, gifs, txUsers, txGifs>>

Ids(rows) == {r.id : r \in rows}

\* Result<T, Error>
Ok(v) == [ok |-> TRUE, val |-> v]
Err(e) == [ok |-> FALSE, err |-> e]


\* ------------------------------------------------------------------ errors
\* sqlx::Error values the statements can produce: a database-reported error with
\* the name of the violated constraint, if any, or an error that is not
\* database-reported (I/O, pool, protocol).
DbError(constraint) == [kind |-> "Database", constraint |-> constraint]
IoError == [kind |-> "Io", constraint |-> None]

UsersEmailKey == "users_email_key"

\* common::Error::new(description, status, cause)
ErrorNew(description, status, cause) ==
    [description |-> description, status |-> status, cause |-> cause]

\* common::Error::new_ise(): the opaque internal-server error.
ErrorNewIse == ErrorNew("Internal server error.", 500, None)

\* common::Error::from(sqlx::Error): the generic storage failure, which wraps
\* the underlying cause.
ErrorFrom(sqlxErr) == ErrorNew("Internal server error.", 500, Some(sqlxErr))

\* Mutant: the closure compares with another constraint name.
MapUserInsertErrOtherName(err) ==
    IF err.kind = "Database"
    THEN IF err.constraint = Some("users_email_idx")
         THEN ErrorNew("That email address is already taken.", 400, None)
         ELSE ErrorFrom(DbError(err.constraint))
    ELSE ErrorNewIse

\* Mutant: the closure turns every other error into the internal-server error.
MapUserInsertErrAllIse(err) ==
    IF err.kind = "Database" /\ err.constraint = Some(UsersEmailKey)
    THEN ErrorNew("That email address is already taken.", 400, None)
    ELSE ErrorNewIse

\* The closure User::insert hands to map_err.
MapUserInsertErr(err) ==
    IF err.kind = "Database"
    THEN IF err.constraint = Some(UsersEmailKey)
         THEN ErrorNew("That email address is already taken.", 400, None)
         ELSE ErrorFrom(DbError(err.constraint))
    ELSE ErrorNewIse

\* ------------------------------------------------------------------ store
\* What a statement issued on handle h sees: the committed rows, and for a
\* transaction its own uncommitted writes on top of them.
UserView(h) == IF h = Pool THEN users ELSE users \cup txUsers[h]

GifView(h) ==
    IF h = Pool THEN gifs
    ELSE {r \in gifs : r.id \notin Ids(txGifs[h])} \cup txGifs[h]

\* A read can be issued on the pool, or on a transaction that no earlier
\* statement has failed.
Usable(h) == IF h = Pool THEN TRUE ELSE ~txFailed[h]

\* The callers are not part of models.rs. Each call of a write operation gets a
\* transaction of its own, which the caller then commits or rolls back.
Writable(t) == ~txOpen[t]

\* The transaction's bookkeeping after its statement.
Issued(t, failed) ==
    /\ txOpen' = [txOpen EXCEPT ![t] = TRUE]
    /\ txFailed' = [txFailed EXCEPT ![t] = failed]

\* users.email UNIQUE (constraint users_email_key): the key is taken for
\* transaction t when a row it sees holds it; the statement waits while
\* another open transaction holds an uncommitted row with it.
EmailTaken(t, email) == \E r \in UserView(t) : r.email = email
EmailPending(t, email) ==
    \E t2 \in Txs \ {t} : \E r \in txUsers[t2] : r.email = email

\* A row version another open transaction has written and not committed.
RowLocked(t, id) == \E t2 \in Txs \ {t} : id \in Ids(txGifs[t2])

\* Every order in which the rows of a result set can arrive.
Orders(S) ==
    {s \in [1..Cardinality(S) -> S] :
        \A i, j \in 1..Cardinality(S) : i # j => s[i] # s[j]}

Range(s) == {s[i] : i \in DOMAIN s}

\* ------------------------------------------------------------------ init
Init ==
    /\ users = {}
    /\ gifs = {}
    /\ txUsers = [t \in Txs |-> {}]
    /\ txGifs = [t \in Txs |-> {}]
    /\ txOpen = [t \in Txs |-> FALSE]
    /\ txFailed = [t \in Txs |-> FALSE]
    /\ nextUserId = 1
    /\ nextGifId = 1
    /\ ret = [op |-> "none"]

\* ------------------------------------------------------------------ SavedGif
\* The row INSERT INTO public.saved_gifs ... RETURNING * writes.
NewSavedGif(id, user, gif) ==
    [id |-> id, user |-> user, giphy_id |-> gif.id, title |-> gif.title,
     url |-> gif.url, category |-> gif.category]

\* SavedGif::insert(user, gif, tx)
SavedGifInsert(t, user, gif) ==
    LET row == NewSavedGif(nextGifId, user, gif) IN
    /\ Writable(t)
    /\ nextGifId <= MaxGifSeq
    /\ nextGifId' = nextGifId + 1
    /\ txGifs' = [txGifs EXCEPT ![t] = @ \cup {row}]
    /\ Issued(t, FALSE)
    /\ ret' = [op |-> "SavedGif::insert", res |-> Ok(row)]
    /\ UNCHANGED <<users, gifs, txUsers, nextUserId>>

\* Mutant: the WHERE clause on "user" is missing.
RowsForUserNoWhere(h, user) == GifView(h)

\* SELECT * FROM public.saved_gifs WHERE "user"=$1
RowsForUser(h, user) == {r \in GifView(h) : r.user = user}

\* SavedGif::all_for_user(user, db)
AllForUser(h, user) ==
    /\ Usable(h)
    /\ \E s \in Orders(RowsForUser(h, user)) :
          ret' = [op |-> "all_for_user", user |-> user, res |-> Ok(s)]
    /\ UNCHANGED <<users, gifs, txUsers, txGifs, txOpen, txFailed, nextUserId,
                   nextGifId>>

\* Mutant: the query filters on the ids only, not on the user.
RowsMatchingIdsAnyUser(h, user, ids) ==
    {r \in GifView(h) : r.giphy_id \in Range(ids)}

\* SELECT * FROM public.saved_gifs WHERE "user"=$1 AND giphy_id=ANY($2)
RowsMatchingIds(h, user, ids) ==
    {r \in GifView(h) : r.user = user /\ r.giphy_id \in Range(ids)}

\* HashMap::insert
MapInsert(m, k, v) == [x \in DOMAIN m \cup {k} |-> IF x = k THEN v ELSE m[x]]

\* stream.try_fold(HashMap::new(), |acc, gif| acc.insert(gif.giphy_id, gif))
RECURSIVE TryFoldMap(_, _)
TryFoldMap(acc, s) ==
    IF s = <<>> THEN acc
    ELSE TryFoldMap(MapInsert(acc, Head(s).giphy_id, Head(s)), Tail(s))

\* SavedGif::for_user_matching_ids(user, ids, db)
ForUserMatchingIds(h, user, ids) ==
    /\ Usable(h)
    /\ \E s \in Orders(RowsMatchingIds(h, user, ids)) :
          ret' = [op |-> "for_user_matching_ids", user |-> user, ids |-> ids,
                  res |-> Ok(TryFoldMap(<<>>, s))]
    /\ UNCHANGED <<users, gifs, txUsers, txGifs, txOpen, txFailed, nextUserId,
                   nextGifId>>

\* Mutant: the update filters on the giphy_id only, not on the user.
RowsToUpdateAnyUser(t, user, gif) == {r \in GifView(t) : r.giphy_id = gif}

\* Mutant: the update guards against overwriting a category already set.
RowsToUpdateIfUnset(t, user, gif) ==
    {r \in GifView(t) : r.user = user /\ r.giphy_id = gif /\ r.category = None}

\* UPDATE public.saved_gifs SET category=$1 WHERE "user"=$2 AND giphy_id=$3
RowsToUpdate(t, user, gif) ==
    {r \in GifView(t) : r.user = user /\ r.giphy_id = gif}

\* Mutant: the new category is not written.
SetCategoryRowKept(r, category) == r

SetCategoryRow(r, category) == [r EXCEPT !.category = Some(category)]

\* SavedGif::set_category(user, gif, category, tx)
SetCategory(t, user, gif, category) ==
    LET matched == RowsToUpdate(t, user, gif)
        updated == {SetCategoryRow(r, category) : r \in matched}
    IN
    /\ Writable(t)
    /\ \A r \in matched : ~RowLocked(t, r.id)
    /\ txGifs' = [txGifs EXCEPT
                    ![t] = {r \in @ : r.id \notin Ids(matched)} \cup updated]
    /\ Issued(t, FALSE)
    /\ IF updated = {}
       THEN ret' = [op |-> "set_category", res |-> Ok(None)]
       ELSE \E r \in updated :
               ret' = [op |-> "set_category", res |-> Ok(Some(r))]
    /\ UNCHANGED <<users, gifs, txUsers, nextUserId, nextGifId>>

\* Mutant: the conversion leaves the saved flag unset.
GiphyGifFromUnsaved(src) ==
    [id |-> src.giphy_id, title |-> src.title, url |-> src.url,
     is_saved |-> FALSE, category |-> src.category]

\* impl From<SavedGif> for GiphyGif
GiphyGifFrom(src) ==
    [id |-> src.giphy_id, title |-> src.title, url |-> src.url,
     is_saved |-> TRUE, category |-> src.category]

\* A saved gif read through handle h is converted for the API response.
Convert(h) ==
    /\ Usable(h)
    /\ \E src \in GifView(h) :
          ret' = [op |-> "GiphyGif::from", src |-> src,
                  res |-> GiphyGifFrom(src)]
    /\ UNCHANGED <<users, gifs, txUsers, txGifs, txOpen, txFailed, nextUserId,
                   nextGifId>>

\* ------------------------------------------------------------------ User
\* Mutant: the insert is not checked against the rows already there.
UsersInsertUnchecked(t, id, email, pwhash) ==
    Ok([id |-> id, email |-> email, pwhash |-> pwhash])

\* Outcome of INSERT INTO public.users (email, pwhash) ... RETURNING * issued
\* in transaction t: the inserted row, or the storage's unique violation.
UsersInsertOutcome(t, id, email, pwhash) ==
    IF EmailTaken(t, email)
    THEN Err(DbError(Some(UsersEmailKey)))
    ELSE Ok([id |-> id, email |-> email, pwhash |-> pwhash])

\* User::insert(email, pwhash, tx)
UserInsert(t, email, pwhash) ==
    LET out == UsersInsertOutcome(t, nextUserId, email, pwhash) IN
    /\ Writable(t)
    /\ nextUserId <= MaxUserSeq
    /\ ~EmailPending(t, email)
    /\ nextUserId' = nextUserId + 1
    /\ IF out.ok
       THEN /\ txUsers' = [txUsers EXCEPT ![t] = @ \cup {out.val}]
            /\ Issued(t, FALSE)
            /\ ret' = [op |-> "User::insert", email |-> email,
                       pwhash |-> pwhash, res |-> Ok(out.val)]
       ELSE /\ txUsers' = txUsers
            /\ Issued(t, TRUE)
            /\ ret' = [op |-> "User::insert", email |-> email,
                       pwhash |-> pwhash, res |-> Err(MapUserInsertErr(out.err))]
    /\ UNCHANGED <<users, gifs, txGifs, nextGifId>>

\* Storage errors of User::insert that are not the email uniqueness violation:
\* a database-reported error that names no constraint or another constraint,
\* and an error that is not database-reported.
OtherStorageErrors == {DbError(None), DbError(Some("users_pkey")), IoError}

\* User::insert(email, pwhash, tx) when the statement fails with such an error.
UserInsertFails(t, email, pwhash, err) ==
    /\ Writable(t)
    /\ Issued(t, TRUE)
    /\ ret' = [op |-> "User::insert", email |-> email, pwhash |-> pwhash,
               res |-> Err(MapUserInsertErr(err))]
    /\ UNCHANGED <<users, gifs, txUsers, txGifs, nextUserId, nextGifId>>

\* fetch_optional: the first row of the result set, if there is one.
FetchOptional(rows) == IF rows = {} THEN {None} ELSE {Some(r) : r \in rows}

\* User::find_by_email(email, db)
FindByEmail(h, email) ==
    /\ Usable(h)
    /\ \E o \in FetchOptional({r \in UserView(h) : r.email = email}) :
          ret' = [op |-> "find_by_email", email |-> email, res |-> Ok(o)]
    /\ UNCHANGED <<users, gifs, txUsers, txGifs, txOpen, txFailed, nextUserId,
                   nextGifId>>

\* Mutant: the lookup by id has no WHERE clause.
FindByIdNoWhere(h, id) ==
    /\ Usable(h)
    /\ \E o \in FetchOptional(UserView(h)) :
          ret' = [op |-> "find_by_id", id |-> id, res |-> Ok(o)]
    /\ UNCHANGED <<users, gifs, txUsers, txGifs, txOpen, txFailed, nextUserId,
                   nextGifId>>

\* User::find_by_id(id, db)
FindById(h, id) ==
    /\ Usable(h)
    /\ \E o \in FetchOptional({r \in UserView(h) : r.id = id}) :
          ret' = [op |-> "find_by_id", id |-> id, res |-> Ok(o)]
    /\ UNCHANGED <<users, gifs, txUsers, txGifs, txOpen, txFailed, nextUserId,
                   nextGifId>>

\* ------------------------------------------------------------------ caller
\* The caller commits the transaction it handed to the write operations.
Commit(t) ==
    /\ txOpen[t]
    /\ ~txFailed[t]
    /\ users' = UserView(t)
    /\ gifs' = GifView(t)
    /\ txUsers' = [txUsers EXCEPT ![t] = {}]
    /\ txGifs' = [txGifs EXCEPT ![t] = {}]
    /\ txOpen' = [txOpen EXCEPT ![t] = FALSE]
    /\ txFailed' = [txFailed EXCEPT ![t] = FALSE]
    /\ ret' = [op |-> "commit"]
    /\ UNCHANGED <<nextUserId, nextGifId>>

\* The caller rolls the transaction back (or drops it).
Rollback(t) ==
    /\ txOpen[t]
    /\ txUsers' = [txUsers EXCEPT ![t] = {}]
    /\ txGifs' = [txGifs EXCEPT ![t] = {}]
    /\ txOpen' = [txOpen EXCEPT ![t] = FALSE]
    /\ txFailed' = [txFailed EXCEPT ![t] = FALSE]
    /\ ret' = [op |-> "rollback"]
    /\ UNCHANGED <<users, gifs, nextUserId, nextGifId>>

\* ------------------------------------------------------------------ specs
TxEnd == \/ \E t \in Txs : Commit(t)
         \/ \E t \in Txs : Rollback(t)

\* The User repository.
NextUsers ==
    \/ \E t \in Txs, e \in Emails, p \in Hashes : UserInsert(t, e, p)
    \/ \E h \in Handles, e \in Emails : FindByEmail(h, e)
    \/ \E h \in Handles, i \in 1..MaxUserSeq : FindById(h, i)
    \/ TxEnd

SpecUsers == Init /\ [][NextUsers]_vars

\* The User repository on a storage that can also fail for unrelated reasons.
NextUsersFaulty ==
    \/ NextUsers
    \/ \E t \in Txs, e \in Emails, p \in Hashes, err \in OtherStorageErrors :
          UserInsertFails(t, e, p, err)

SpecUsersFaulty == Init /\ [][NextUsersFaulty]_vars

\* The SavedGif repository: the write operations.
NextGifWrites ==
    \/ \E t \in Txs, u \in UserArgs, g \in GifInputs : SavedGifInsert(t, u, g)
    \/ \E t \in Txs, u \in UserArgs, g \in GiphyIds, c \in Categories :
          SetCategory(t, u, g, c)
    \/ TxEnd

SpecGifWrites == Init /\ [][NextGifWrites]_vars

\* The SavedGif repository: the read operations over what the writes stored.
NextGifReads ==
    \/ \E t \in Txs, u \in UserArgs, g \in GifInputs : SavedGifInsert(t, u, g)
    \/ \E h \in Handles, u \in UserArgs : AllForUser(h, u)
    \/ \E h \in Handles, u \in UserArgs, ids \in IdLists :
          ForUserMatchingIds(h, u, ids)
    \/ \E h \in Handles : Convert(h)
    \/ TxEnd

SpecGifReads == Init /\ [][NextGifReads]_vars

\* ------------------------------------------------------------------ claims
\* Every saved_gifs row version there is, committed or not.
AllGifRows == gifs \cup UNION {txGifs[t] : t \in Txs}

\* Every users row there is, committed or not.
AllUserRows == users \cup UNION {txUsers[t] : t \in Txs}

\* C1: SavedGif::insert(u, g) returns a record with user = u, the gif's
\* giphy_id, title, url and category, and an id no row had before; when the
\* transaction saw no saved gif of u before, it then sees exactly that record
\* for u; and all_for_user(u) returns, without error and without repetition,
\* exactly the rows it sees whose user is u (none of another user, the empty
\* sequence when there is none).
C1_InsertThenAllForUser ==
    [][ /\ \A t \in Txs, u \in UserArgs, g \in GifInputs :
             SavedGifInsert(t, u, g) =>
                /\ ret'.res.ok
                /\ LET r == ret'.res.val IN
                   /\ r.user = u
                   /\ r.giphy_id = g.id
                   /\ r.title = g.title
                   /\ r.url = g.url
                   /\ r.category = g.category
                   /\ r.id \notin Ids(AllGifRows)
                   /\ ({x \in GifView(t) : x.user = u} = {}
                         => {x \in GifView(t)' : x.user = u} = {r})
        /\ \A h \in Handles, u \in UserArgs :
             AllForUser(h, u) =>
                /\ ret'.res.ok
                /\ LET s == ret'.res.val IN
                   /\ Range(s) = {x \in GifView(h) : x.user = u}
                   /\ Len(s) = Cardinality(Range(s))
                /\ store' = store
      ]_vars

\* C1 witness: user 1's only saved gif, just inserted, is what all_for_user(1)
\* returns while another user has a saved gif too.
C1_Witness ==
    /\ ret.op = "all_for_user"
    /\ ret.user = 1
    /\ ret.res.val =
          << [id |-> 2, user |-> 1, giphy_id |-> "abc123", title |-> "Cat",
              url |-> "http://x/abc123.gif", category |-> None] >>
    /\ \E x \in gifs : x.user = 2

\* C2: for_user_matching_ids(u, ids) returns, without error, a mapping whose
\* keys are exactly the requested ids that are the giphy_id of a row of u, each
\* value being a row of u with that giphy_id; other requested ids are absent
\* and no row of another user appears.
C2_MatchingIds ==
    [][ \A h \in Handles, u \in UserArgs, ids \in IdLists :
          ForUserMatchingIds(h, u, ids) =>
             /\ ret'.res.ok
             /\ LET m == ret'.res.val IN
                /\ DOMAIN m =
                      {k \in Range(ids) :
                          \E x \in GifView(h) : x.user = u /\ x.giphy_id = k}
                /\ \A k \in DOMAIN m :
                      /\ m[k] \in GifView(h)
                      /\ m[k].user = u
                      /\ m[k].giphy_id = k
             /\ store' = store
      ]_vars

\* C2 witness: two ids were requested, the user owns a row for one of them
\* only, and another user owns a row for the other.
C2_Witness ==
    /\ ret.op = "for_user_matching_ids"
    /\ ret.user = 1
    /\ ret.ids = <<"xyz789", "abc123">>
    /\ DOMAIN ret.res.val = {"abc123"}
    /\ \E x \in gifs : x.user = 2 /\ x.giphy_id = "xyz789"

\* C8: the GiphyGif made from a SavedGif has is_saved = true, the record's
\* giphy_id as id, its title, url and category (unset staying unset), and
\* carries neither the database id nor the user.
C8_Conversion ==
    ret.op = "GiphyGif::from" =>
        /\ ret.res.is_saved = TRUE
        /\ ret.res.id = ret.src.giphy_id
        /\ ret.res.title = ret.src.title
        /\ ret.res.url = ret.src.url
        /\ ret.res.category = ret.src.category
        /\ DOMAIN ret.res = {"id", "title", "url", "is_saved", "category"}

\* C8 witness: a saved gif with no category was converted.
C8_Witness ==
    /\ ret.op = "GiphyGif::from"
    /\ ret.src.category = None
    /\ ret.res.category = None
    /\ ret.res.id = "abc123"

\* C3: set_category(u, gid, c) in a transaction that sees a row with user = u
\* and giphy_id = gid returns Some(record) with user = u, giphy_id = gid and
\* category = c, and every such row it then sees has category c; in a
\* transaction that sees no such row it returns Ok(None) and changes no row.
C3_SetCategory ==
    [][ \A t \in Txs, u \in UserArgs, g \in GiphyIds, c \in Categories :
          SetCategory(t, u, g, c) =>
             IF \E x \in GifView(t) : x.user = u /\ x.giphy_id = g
             THEN /\ ret'.res.ok
                  /\ ret'.res.val # None
                  /\ LET r == ret'.res.val[1] IN
                     /\ r.user = u
                     /\ r.giphy_id = g
                     /\ r.category = Some(c)
                     /\ r \in GifView(t)'
                  /\ \A x \in GifView(t)' :
                        x.user = u /\ x.giphy_id = g => x.category = Some(c)
             ELSE /\ ret'.res = Ok(None)
                  /\ store' = store
      ]_vars

\* C3 witness: the committed row of user 1 for "abc123", saved without a
\* category, was given the category "funny" and returned.
C3_Witness ==
    /\ ret.op = "set_category"
    /\ ret.res.val # None
    /\ ret.res.val[1].user = 1
    /\ ret.res.val[1].giphy_id = "abc123"
    /\ ret.res.val[1].category = Some("funny")
    /\ \E x \in gifs : x.id = ret.res.val[1].id /\ x.category = None

\* A set_category for user u in a fresh transaction can proceed whenever no
\* other transaction holds an uncommitted write to a row of u.
C9_NoWait ==
    \A t \in Txs, u \in UserArgs, g \in GiphyIds, c \in Categories :
        (/\ Writable(t)
         /\ \A t2 \in Txs \ {t} : \A x \in txGifs[t2] : x.user # u)
            => ENABLED SetCategory(t, u, g, c)

\* What the steps of set_category, insert and commit do to the rows.
C9_Steps ==
    /\ \A t \in Txs, u \in UserArgs, g \in GiphyIds, c \in Categories :
          SetCategory(t, u, g, c) =>
             /\ (\E x \in GifView(t) : x.user = u /\ x.giphy_id = g)
                   => /\ ret'.res.ok
                      /\ ret'.res.val # None
                      /\ ret'.res.val[1].category = Some(c)
             /\ \A h \in Handles :
                   {x \in GifView(h)' : x.user # u} = {x \in GifView(h) : x.user # u}
    /\ \A t \in Txs, u \in UserArgs, gi \in GifInputs :
          SavedGifInsert(t, u, gi) =>
             \A h \in Handles :
                {x \in GifView(h)' : x.user # u} = {x \in GifView(h) : x.user # u}
    /\ \A t \in Txs :
          Commit(t) =>
             \A r \in txGifs[t] :
                /\ r \in gifs'
                /\ \A x \in gifs' : x.id = r.id => x = r

\* C9: set_category on an existing (user, giphy_id) pair is never rejected
\* because of the category another transaction wrote before: it returns a
\* record with the new category whatever the row's category was; a
\* transaction's committed write replaces the stored version, so the category
\* stored is that of the write applied last; a set_category or insert for one
\* user changes no row of another user in any view, and is never made to wait
\* by uncommitted writes to other users' rows.
C9_LastWriteWins == []C9_NoWait /\ [][C9_Steps]_vars

\* C9 witness: a row whose committed category "cute" came from one
\* transaction's set_category is overwritten with "funny" by the other
\* transaction, which got the record back.
C9_Witness ==
    /\ ret.op = "set_category"
    /\ ret.res.val # None
    /\ ret.res.val[1].category = Some("funny")
    /\ ret.res.val[1].giphy_id = "abc123"
    /\ ret.res.val[1] \in txGifs["tx2"]
    /\ \E x \in gifs : x.id = ret.res.val[1].id /\ x.category = Some("cute")

\* C10: set_category(u, gid, c) changes only the category of the rows with
\* user = u and giphy_id = gid: in the transaction's view every other row is
\* the same, every matched row keeps its id, user, giphy_id, title and url
\* and gets category c, the number of rows is the same, the committed rows,
\* the other transactions' writes and the users table are unchanged; when
\* several rows match, all get c and one of them is returned.
C10_Frame ==
    [][ \A t \in Txs, u \in UserArgs, g \in GiphyIds, c \in Categories :
          SetCategory(t, u, g, c) =>
             LET before == GifView(t)
                 after == GifView(t)'
                 hit(x) == x.user = u /\ x.giphy_id = g
             IN
             /\ {x \in after : ~hit(x)} = {x \in before : ~hit(x)}
             /\ {x \in after : hit(x)} =
                   {[x EXCEPT !.category = Some(c)] : x \in {y \in before : hit(y)}}
             /\ Cardinality(after) = Cardinality(before)
             /\ Ids(after) = Ids(before)
             /\ gifs' = gifs
             /\ \A t2 \in Txs \ {t} : txGifs'[t2] = txGifs[t2]
             /\ users' = users
             /\ txUsers' = txUsers
             /\ ret'.res.ok
             /\ (\E x \in before : hit(x))
                   => /\ Len(ret'.res.val) = 1
                      /\ ret'.res.val[1] \in {x \in after : hit(x)}
      ]_vars

\* C10 witness: two rows of user 1 for "abc123" were both given "funny" by one
\* set_category, which returned one of them, next to an untouched row for
\* another giphy_id or user.
C10_Witness ==
    /\ ret.op = "set_category"
    /\ ret.res.val # None
    /\ \E t \in Txs : \E x, y \in txGifs[t] :
          /\ x.id # y.id
          /\ x.user = 1 /\ y.user = 1
          /\ x.giphy_id = "abc123" /\ y.giphy_id = "abc123"
          /\ x.category = Some("funny") /\ y.category = Some("funny")
          /\ {x.id, y.id} \subseteq Ids(gifs)
          /\ ret.res.val[1] \in {x, y}

\* The duplicate-email error: its message, status 400, no cause.
DuplicateEmail ==
    [description |-> "That email address is already taken.", status |-> 400,
     cause |-> None]

\* C4: once a User::insert of an email has taken effect (its row is in the
\* store the later call's transaction sees), a later User::insert of the same
\* email fails with the duplicate-email error (that message, status 400, no
\* cause), not with the internal-server or a storage error, and leaves the
\* users table as it was: the first account keeps its id and password hash.
C4_DuplicateEmail ==
    [][ \A t \in Txs, e \in Emails, p \in Hashes :
          (UserInsert(t, e, p) /\ \E x \in UserView(t) : x.email = e) =>
             /\ ~ret'.res.ok
             /\ ret'.res.err = DuplicateEmail
             /\ users' = users
             /\ txUsers' = txUsers
             /\ UserView(t)' = UserView(t)
      ]_vars

\* C4 witness: the account of ann@x.io made with hash h1 is stored with id 1,
\* and an insert of ann@x.io with hash h2 has just been refused.
C4_Witness ==
    /\ ret.op = "User::insert"
    /\ ret.email = "ann@x.io"
    /\ ret.pwhash = "h2"
    /\ ~ret.res.ok
    /\ ret.res.err.status = 400
    /\ [id |-> 1, email |-> "ann@x.io", pwhash |-> "h1"] \in users

\* The internal-server error: opaque, no cause.
InternalServerError ==
    [description |-> "Internal server error.", status |-> 500, cause |-> None]

C6_Unique ==
    \A x, y \in AllUserRows : (x.email = y.email \/ x.id = y.id) => x = y

\* C6 (the inserts): a User::insert succeeds only when no row, committed or
\* pending in any transaction, holds its email, and its id is new.
C6_Steps ==
    \A t \in Txs, e \in Emails, p \in Hashes :
        (UserInsert(t, e, p) /\ ret'.res.ok) =>
           /\ \A x \in AllUserRows : x.email # e
           /\ ret'.res.val.id \notin Ids(AllUserRows)
           /\ ret'.res.val.email = e

\* C6: under every interleaving of User::insert calls in two transactions, no
\* two users rows have the same email or the same id, and of the inserts of
\* one email at most one is in effect: an insert succeeds only when no row of
\* any transaction holds the email.
C6_EmailAndIdUnique == []C6_Unique /\ [][C6_Steps]_vars

\* C6 witness: while one transaction holds its uncommitted row for ann@x.io,
\* the other has inserted bob@x.io; the two rows differ in email and id.
C6_Witness ==
    /\ \E x \in txUsers["tx1"] : x.email = "ann@x.io"
    /\ \E y \in txUsers["tx2"] : y.email = "bob@x.io"
    /\ ret.op = "User::insert"
    /\ ret.res.ok

\* C7: find_by_email(e) returns Ok(None) when no row it sees has email e and
\* otherwise Some of the row with email e; find_by_id(i) likewise by id;
\* neither changes the store; and the row a successful User::insert returns is
\* then the one row with its email and the one row with its id.
C7_Lookups ==
    [][ /\ \A h \in Handles, e \in Emails :
             FindByEmail(h, e) =>
                /\ ret'.res.ok
                /\ IF \E x \in UserView(h) : x.email = e
                   THEN /\ ret'.res.val # None
                        /\ ret'.res.val[1] \in UserView(h)
                        /\ ret'.res.val[1].email = e
                   ELSE ret'.res.val = None
                /\ store' = store
        /\ \A h \in Handles, i \in 1..MaxUserSeq :
             FindById(h, i) =>
                /\ ret'.res.ok
                /\ IF \E x \in UserView(h) : x.id = i
                   THEN /\ ret'.res.val # None
                        /\ ret'.res.val[1] \in UserView(h)
                        /\ ret'.res.val[1].id = i
                   ELSE ret'.res.val = None
                /\ store' = store
        /\ \A t \in Txs, e \in Emails, p \in Hashes :
             (UserInsert(t, e, p) /\ ret'.res.ok) =>
                LET x == ret'.res.val IN
                /\ x.email = e
                /\ x.pwhash = p
                /\ {y \in UserView(t)' : y.email = e} = {x}
                /\ {y \in UserView(t)' : y.id = x.id} = {x}
      ]_vars

\* C7 witness: with two accounts stored, find_by_id(2) returned the account of
\* bob@x.io.
C7_Witness ==
    /\ ret.op = "find_by_id"
    /\ ret.id = 2
    /\ ret.res.val = Some([id |-> 2, email |-> "bob@x.io", pwhash |-> "h2"])
    /\ Cardinality(users) = 2

====
